---- MODULE Spec2Model ----
(***************************************************************************)
(* The Draw.io -> Commbox conversion pipeline of src/frontend/src/App.jsx: *)
(* decodeDrawio, parseDrawioFile, extractNodes, extractConnections,        *)
(* detectNodeType, buildHierarchy, convertToCommboxNode,                   *)
(* generateCommboxXML and the POST /api/converter/convert route.           *)
(*                                                                         *)
(* Text is modelled as a sequence of segments (words): the empty string is *)
(* <<>>, String.prototype.includes is a search over the segments and       *)
(* toLowerCase maps every segment to its lower-case form.                  *)
(***************************************************************************)
EXTENDS Integers, Sequences, FiniteSets, TLC

\* ------------------------------------------------------------------ bounds

\* Most vertex cells of an uploaded diagram.
MaxNodes == 3
\* Most edge cells of an uploaded diagram.
MaxEdges == 3
\* Most vertex cells and edge cells of an uploaded diagram together.
MaxCells == 5
\* Most vertex cells whose containment parent is not the default layer.
MaxForeignParents == 1
\* Most segments of a label given to detectNodeType alone.
MaxSegments == 2
\* Most segments of a style given to detectNodeType alone.
MaxStyleSegments == 1
\* Most characters of a label given to the escaping alone.
MaxLabelChars == 4
\* Most vertex cells and edge cells of a diagram uploaded while another
\* request is in flight.
MaxConcurrentCells == 3
\* Most clicks on the process button of the wizard.
MaxAttempts == 3
\* The step of time in the wizard, in milliseconds.
TickMs == 10000

\* ------------------------------------------------------------------- text

\* JavaScript's undefined (an absent XML attribute).
Undefined == "<undefined>"

\* The segments a label is made of.  "friend" and "restart" hold the
\* keywords "end" and "start" inside a longer word; the capitalised ones
\* differ from their keyword by case only.
LabelSegments ==
    { "מעבר לנציג", "transfer", "agent", "לא ידוע", "unknown", "שגיאה", "error",
      "סיום", "סגירה", "end", "close", "התחלה", "start", "קלט", "input",
      "hello", "ERROR", "Transfer", "friend", "restart",
      "welcome to our support service" }

\* The segments of a style attribute.
StyleSegments == { "ellipse", "circle", "rhombus", "diamond", "rounded=1", "Rhombus" }

\* One segment in lower case.
LowerSegment(s) ==
    CASE s = "ERROR" -> "error"
      [] s = "Transfer" -> "transfer"
      [] s = "Rhombus" -> "rhombus"
      [] OTHER -> s

toLowerCase(str) == [i \in 1..Len(str) |-> LowerSegment(str[i])]

\* segment s holds the text kw
SegmentHolds(s, kw) ==
    \/ s = kw
    \/ s = "friend" /\ kw = "end"
    \/ s = "restart" /\ kw = "start"

includes(str, kw) == \E i \in 1..Len(str) : SegmentHolds(str[i], kw)

\* The number of UTF-16 code units of a segment.
SegmentLength(s) ==
    CASE s \in {"end"} -> 3
      [] s \in {"קלט"} -> 3
      [] s \in {"סיום"} -> 4
      [] s \in {"agent", "close", "start", "input", "error", "ERROR", "hello", "שגיאה", "סגירה", "התחלה"} -> 5
      [] s \in {"friend", "circle"} -> 6
      [] s \in {"לא ידוע", "unknown", "ellipse", "rhombus", "Rhombus", "diamond", "restart"} -> 7
      [] s \in {"transfer", "Transfer"} -> 8
      [] s \in {"rounded=1"} -> 9
      [] s \in {"מעבר לנציג"} -> 10
      [] s \in {"welcome to our support service"} -> 30

RECURSIVE StrLength(_)
\* str.length, the segments being separated by one space
StrLength(str) ==
    IF str = <<>> THEN 0
    ELSE IF Len(str) = 1 THEN SegmentLength(str[1])
    ELSE SegmentLength(str[1]) + 1 + StrLength(Tail(str))

\* ----------------------------------------------------------- detectNodeType

\* detectNodeType with the style tested before the label (a mutant).
detectNodeTypeStyleFirst(node) ==
    LET value == toLowerCase(node.value)
        style == toLowerCase(node.style)
    IN  IF includes(style, "ellipse") \/ includes(style, "circle") THEN "start"
        ELSE IF includes(style, "rhombus") \/ includes(style, "diamond") THEN "decision"
        ELSE IF includes(value, "מעבר לנציג") \/ includes(value, "transfer") \/ includes(value, "agent")
             THEN "transfer"
        ELSE IF includes(value, "לא ידוע") \/ includes(value, "unknown") THEN "unknown"
        ELSE IF includes(value, "שגיאה") \/ includes(value, "error") THEN "error"
        ELSE IF includes(value, "סיום") \/ includes(value, "סגירה")
                \/ includes(value, "end") \/ includes(value, "close") THEN "end"
        ELSE IF includes(value, "התחלה") \/ includes(value, "start") THEN "start"
        ELSE IF includes(value, "קלט") \/ includes(value, "input") THEN "input"
        ELSE "message"

detectNodeType(node) ==
    LET value == toLowerCase(node.value)
        style == toLowerCase(node.style)
    IN  IF includes(value, "מעבר לנציג") \/ includes(value, "transfer") \/ includes(value, "agent")
             THEN "transfer"
        ELSE IF includes(value, "לא ידוע") \/ includes(value, "unknown") THEN "unknown"
        ELSE IF includes(value, "שגיאה") \/ includes(value, "error") THEN "error"
        ELSE IF includes(value, "סיום") \/ includes(value, "סגירה")
                \/ includes(value, "end") \/ includes(value, "close") THEN "end"
        ELSE IF includes(value, "התחלה") \/ includes(value, "start") THEN "start"
        ELSE IF includes(value, "קלט") \/ includes(value, "input") THEN "input"
        ELSE IF includes(style, "ellipse") \/ includes(style, "circle") THEN "start"
        ELSE IF includes(style, "rhombus") \/ includes(style, "diamond") THEN "decision"
        ELSE "message"

\* ------------------------------------------------------------ graph cells

\* The ids of the vertex cells, in the order the file lists them.
NodeIdPool == <<"a", "b", "c", "d", "e">>

\* The label and the style of the i-th vertex cell.
VertexValue(i) ==
    CASE i % 5 = 1 -> <<>>
      [] i % 5 = 2 -> <<"welcome to our support service">>
      [] i % 5 = 3 -> <<"ERROR", "input">>
      [] i % 5 = 4 -> <<"קלט">>
      [] OTHER -> <<"transfer">>

VertexStyle(i) == IF i % 2 = 1 THEN <<"rhombus">> ELSE <<>>

\* The containment parent attribute of a vertex cell: absent, the diagram
\* root "0", the default layer "1", or a container (group, swimlane) "g".
ParentAttrs == { Undefined, "0", "1", "g" }

\* What the source and the target attribute of an edge cell may name in a
\* file of n vertex cells: a vertex, or the layer cell "1" (which is no node
\* unless the layer is named, and the edge then dangles).
EndPoints(n) == { NodeIdPool[i] : i \in 1..n } \cup { "1" }

\* The two cells every Draw.io graph model starts with: the diagram root
\* and the default layer, which carries a value when the layer is named.
RootCells(layerNamed) ==
    << [id |-> "0", value |-> <<>>, style |-> <<>>, parent |-> Undefined,
        vertex |-> Undefined, edge |-> Undefined, source |-> Undefined, target |-> Undefined],
       [id |-> "1", value |-> IF layerNamed THEN <<"hello">> ELSE <<>>, style |-> <<>>,
        parent |-> "0",
        vertex |-> Undefined, edge |-> Undefined, source |-> Undefined, target |-> Undefined] >>

VertexCell(i, par) ==
    [id |-> NodeIdPool[i], value |-> VertexValue(i), style |-> VertexStyle(i), parent |-> par,
     vertex |-> "1", edge |-> Undefined, source |-> Undefined, target |-> Undefined]

EdgeCell(k, s, t) ==
    [id |-> "e" \o ToString(k), value |-> <<>>, style |-> <<>>, parent |-> "1",
     vertex |-> Undefined, edge |-> "1", source |-> s, target |-> t]

\* The graph-model markup with n vertex cells and the edge cells es: the
\* two root cells, then the vertex cells, then the edge cells.
Cells(layerNamed, n, ps, es) ==
    RootCells(layerNamed)
      \o [i \in 1..n |-> VertexCell(i, ps[i])]
      \o [k \in 1..Len(es) |-> EdgeCell(k, es[k][1], es[k][2])]

\* ----------------------------------------------------------- extraction

\* A JavaScript value used as a condition.
Truthy(v) == v # Undefined /\ v # ""

extractNodes(graphModel) ==
    LET cells == IF graphModel.hasRoot THEN graphModel.cells ELSE <<>>
        isNode(cell) == cell.vertex = "1" \/ cell.value # <<>>
        picked == SelectSeq(cells, isNode)
    IN  [i \in 1..Len(picked) |->
            [id |-> picked[i].id, value |-> picked[i].value, style |-> picked[i].style,
             parent |-> picked[i].parent]]

extractConnections(graphModel) ==
    LET cells == IF graphModel.hasRoot THEN graphModel.cells ELSE <<>>
        isEdge(cell) == cell.edge = "1"
        picked == SelectSeq(cells, isEdge)
    IN  [i \in 1..Len(picked) |->
            [id |-> picked[i].id, source |-> picked[i].source, target |-> picked[i].target,
             value |-> picked[i].value]]

\* ------------------------------------------------------------ buildHierarchy

\* The node map after nodes.forEach: every node with an empty children list.
InitialNodeMap(nodes) ==
    [id \in { nodes[i].id : i \in 1..Len(nodes) } |->
        LET i == CHOOSE j \in 1..Len(nodes) :
                    /\ nodes[j].id = id
                    /\ \A k \in (j+1)..Len(nodes) : nodes[k].id # id
        IN  [id |-> nodes[i].id, value |-> nodes[i].value, style |-> nodes[i].style,
             parent |-> nodes[i].parent, children |-> <<>>]]

\* ApplyConnection putting the target first in the children list (a mutant).
ApplyConnectionPrepend(nodeMap, conn) ==
    IF conn.source \in DOMAIN nodeMap /\ conn.target \in DOMAIN nodeMap
    THEN LET m1 == [nodeMap EXCEPT ![conn.source].children = <<conn.target>> \o @]
         IN  [m1 EXCEPT ![conn.target].parent = conn.source]
    ELSE nodeMap

\* ApplyConnection looking up each end on its own: the end that is found is
\* updated even when the other is not (a mutant).
ApplyConnectionEitherEnd(nodeMap, conn) ==
    LET m1 == IF conn.source \in DOMAIN nodeMap
              THEN [nodeMap EXCEPT ![conn.source].children = Append(@, conn.target)]
              ELSE nodeMap
    IN  IF conn.target \in DOMAIN nodeMap
        THEN [m1 EXCEPT ![conn.target].parent = conn.source]
        ELSE m1

\* One connection applied to the node map (the body of connections.forEach).
ApplyConnection(nodeMap, conn) ==
    IF conn.source \in DOMAIN nodeMap /\ conn.target \in DOMAIN nodeMap
    THEN LET m1 == [nodeMap EXCEPT ![conn.source].children = Append(@, conn.target)]
         IN  [m1 EXCEPT ![conn.target].parent = conn.source]
    ELSE nodeMap

RECURSIVE ApplyConnections(_, _)
ApplyConnections(nodeMap, connections) ==
    IF connections = <<>> THEN nodeMap
    ELSE ApplyConnections(ApplyConnection(nodeMap, Head(connections)), Tail(connections))

\* The root test of the second nodes.forEach.
IsRootParent(parent) == ~Truthy(parent) \/ parent = "1" \/ parent = "0"

buildHierarchy(nodes, connections) ==
    LET nodeMap == ApplyConnections(InitialNodeMap(nodes), connections)
        isRoot(node) == IsRootParent(nodeMap[node.id].parent)
        rootNodes == SelectSeq(nodes, isRoot)
    IN  [nodeMap |-> nodeMap,
         hierarchy |-> [i \in 1..Len(rootNodes) |-> nodeMap[rootNodes[i].id]]]

\* ------------------------------------------------------ convertToCommboxNode

\* `n_${index}`
NodeId(index) == "n_" \o ToString(index)

convertToCommboxNode(node, index, parentId) ==
    LET nodeType == detectNodeType(node)
        nodeId == NodeId(index)
        commboxNode ==
            [id |-> nodeId,
             text |-> IF node.value # <<>> THEN node.value ELSE <<"Node", ToString(index)>>,
             parent |-> parentId,
             rI |-> "2",
             addChannelStateMessage |-> FALSE,
             attachments |-> <<>>]
    IN  CASE nodeType = "message" ->
                IF node.value # <<>> /\ StrLength(node.value) > 20
                THEN commboxNode @@ [bodyHtml |-> node.value]
                ELSE commboxNode
          [] nodeType = "transfer" -> commboxNode @@ [step |-> "agent_node"]
          [] nodeType = "unknown" -> commboxNode @@ [unknown |-> "1"]
          [] nodeType = "error" -> commboxNode @@ [error |-> TRUE]
          [] nodeType = "end" -> commboxNode @@ [end |-> "2"]
          [] nodeType = "input" ->
                commboxNode @@
                [d_e |-> << [uniqueName |-> "input_" \o ToString(index),
                             name |-> IF node.value # <<>> THEN node.value ELSE <<"הזן קלט">>,
                             labelDescription |-> "", type |-> "string", key |-> FALSE,
                             isVisible |-> FALSE, isMandatory |-> TRUE, askOnlyOnce |-> FALSE,
                             isSystemField |-> FALSE, fieldType |-> "1", validation |-> ""] >>]
          [] OTHER -> commboxNode

\* ---------------------------------------------------------------- uploads

\* An uploaded file.  outer: what parsing the file as XML gives; where and
\* content: the property that holds the diagram element and the form of
\* the element; payloadOk: base64, raw inflate and URI decoding all succeed;
\* decoded: the recovered markup (well-formed or not, with a graph-model
\* root or not, and its cells).
Upload(cells) ==
    [hasFile |-> TRUE, outer |-> "parsed", parserMessage |-> "Unclosed root tag",
     where |-> "mxfile", content |-> "_", payloadOk |-> TRUE,
     decoded |-> [wellFormed |-> TRUE, hasRoot |-> TRUE, cells |-> cells]]

\* A diagram small enough to be combined with every form of the outer file.
SmallCells ==
    { Cells(FALSE, n, [i \in 1..n |-> "1"], <<>>) : n \in 0..1 }

\* Files that differ from a well-formed upload in one way.
VariantUploads ==
    UNION { { [Upload(c) EXCEPT !.hasFile = FALSE],
              [Upload(c) EXCEPT !.outer = "malformed"],
              [Upload(c) EXCEPT !.outer = "malformed", !.parserMessage = ""],
              [Upload(c) EXCEPT !.outer = "null"],
              [Upload(c) EXCEPT !.where = "none"],
              [Upload(c) EXCEPT !.where = "root"],
              [Upload(c) EXCEPT !.where = "root", !.content = "string"],
              [Upload(c) EXCEPT !.where = "root", !.content = "none"],
              [Upload(c) EXCEPT !.content = "string"],
              [Upload(c) EXCEPT !.content = "$text"],
              [Upload(c) EXCEPT !.content = "empty"],
              [Upload(c) EXCEPT !.content = "none"],
              [Upload(c) EXCEPT !.payloadOk = FALSE],
              [Upload(c) EXCEPT !.decoded.wellFormed = FALSE],
              [Upload(c) EXCEPT !.decoded.wellFormed = FALSE, !.parserMessage = ""],
              [Upload(c) EXCEPT !.decoded.hasRoot = FALSE] } : c \in SmallCells }

\* The uploads within the bounds: a well-formed file with any diagram, or a
\* variant file.
IsUpload(file) ==
    \/ \E n \in 0..MaxNodes, m \in 0..MaxEdges, layerNamed \in BOOLEAN :
          \E ps \in [1..n -> ParentAttrs], es \in [1..m -> EndPoints(n) \X EndPoints(n)] :
             /\ n + m <= MaxCells
             /\ Cardinality({ i \in 1..n : ps[i] # "1" }) <= MaxForeignParents
             /\ file = Upload(Cells(layerNamed, n, ps, es))
    \/ file \in VariantUploads

\* ------------------------------------------------------------------ state

VARIABLES
    input,            \* the uploaded file (req.file)
    pc,               \* where the route handler is
    thrown,           \* the error parseDrawioFile rejected with
    decodedContent,   \* parseDrawioFile: decodedContent
    parsedData,       \* route handler: parsedData
    nodeMap,          \* generateCommboxXML: nodeMap
    hierarchy,        \* generateCommboxXML: hierarchy
    gen,              \* generateCommboxXML: scriptArray, nodeIndex, processedNodes
                      \*   and the frames of processNode that are running
    rootIdx,          \* the index hierarchy.forEach is at
    emitted,          \* history: the diagram node ids in the order of their records
    calls,            \* history: the number of processNode calls
    response,         \* what res.json was given
    clock,            \* Date.now()
    run,              \* the number of the conversion (1 or 2)
    first,            \* history: the response and the records of conversion 1
    cNode,            \* the node given to detectNodeType alone
    cType,            \* what detectNodeType answered
    esc,              \* the escaping alone: a label, scriptValue and escapedValue
    wizard,           \* the wizard component: its state hooks and its request
    reqs              \* two requests in flight: the locals of each invocation

vars == << input, pc, thrown, decodedContent, parsedData, nodeMap, hierarchy, gen,
           rootIdx, emitted, calls, response, clock, run, first, cNode, cType,
           esc, wizard, reqs >>

NoResponse == [status |-> 0]
NoError == [raised |-> FALSE, message |-> ""]
NoData == [nodes |-> <<>>, connections |-> <<>>, mxGraphModelXml |-> [wellFormed |-> FALSE]]
NoGen == [scriptArray |-> <<>>, nodeIndex |-> 0, processedNodes |-> {}, stack |-> <<>>]
NoNode == [value |-> <<>>, style |-> <<>>]
NoFirst == [response |-> NoResponse, scriptArray |-> <<>>]
NoEscape == [at |-> "off", label |-> <<>>, scriptValue |-> <<>>, escapedValue |-> <<>>]
NoWizard == [at |-> "off"]
NoRequests == [inv |-> <<>>, locals |-> <<>>]

\* new Error(message)
Error(message) == [raised |-> TRUE, message |-> message]

\* ------------------------------------------------------------------ route

\* The 500 answer of the catch block with no fallback text (a mutant).
ErrorResponseNoFallback(error) ==
    [status |-> 500, success |-> FALSE, error |-> error.message]

\* The 500 answer of the route's catch block.
ErrorResponse(error) ==
    [status |-> 500, success |-> FALSE,
     error |-> IF Truthy(error.message) THEN error.message ELSE "שגיאה בעיבוד הקובץ"]

\* parseDrawioFile from the first await to the second: the diagram element
\* is looked up, its text taken and decoded.  The error it throws, if any.
OuterError(file) ==
    CASE file.outer = "malformed" -> Error(file.parserMessage)
      [] file.outer = "null" -> Error("Cannot read properties of null (reading 'mxfile')")
      [] file.where = "none" \/ file.content = "empty" ->
            Error("Invalid Draw.io file format - no diagram found")
      [] file.content \notin {"string", "_", "$text"} ->
            Error("No compressed data found in diagram")
      [] ~file.payloadOk -> Error("Failed to decompress Draw.io file")
      [] OTHER -> NoError

\* parser.parseStringPromise(decodedContent) when it resolves
ParseGraphModel(decoded) == [hasRoot |-> decoded.hasRoot, cells |-> decoded.cells]

\* ------------------------------------------------------ generateCommboxXML

\* The configuration record scriptArray starts with.
ConfigRecord ==
    [seedId |-> 44, endNodeId |-> "", genericDelayJumpTime |-> "", genericDelayJumpNode |-> "",
     genericRedisplayTime |-> "", genericRedisplayMessage |-> "",
     dataContextExpirationTime |-> "", engineVersion |-> 0, allowUsingAI |-> FALSE,
     importMismatches |-> <<>>, assistantId |-> ""]

\* The root node pushed after it.
RootRecord ==
    [id |-> "node_0", text |-> <<"התחלה">>, parent |-> "#", rI |-> "2",
     addChannelStateMessage |-> FALSE, attachments |-> <<>>]

\* The value nodeIndex starts a conversion with, kept from the conversion
\* before (a mutant).
FirstNodeIndexKept(before) == IF before = 0 THEN 2 ELSE before

\* let nodeIndex = 2; before is the counter of the conversion before.
FirstNodeIndex(before) == 2

\* The fixed process nodes with the error process under the root (a mutant).
FixedProcessNodesFlat ==
    << [id |-> "n_3", text |-> <<"תהליכים קבועים">>, parent |-> "node_0",
        buttonDisplayMode |-> "1", rI |-> "2", addChannelStateMessage |-> FALSE,
        attachments |-> <<>>],
       [id |-> "n_10", text |-> <<"מעבר לנציג">>, parent |-> "n_3", rI |-> "2",
        addChannelStateMessage |-> FALSE, attachments |-> <<>>],
       [id |-> "n_11", text |-> <<"Error">>, parent |-> "node_0", rI |-> "2",
        addChannelStateMessage |-> FALSE, error |-> TRUE],
       [id |-> "n_12", text |-> <<"לא ידוע">>, parent |-> "n_3", rI |-> "2",
        addChannelStateMessage |-> FALSE, unknown |-> "1"] >>

\* The four records pushed after the traversal.
FixedProcessNodes ==
    << [id |-> "n_3", text |-> <<"תהליכים קבועים">>, parent |-> "node_0",
        buttonDisplayMode |-> "1", rI |-> "2", addChannelStateMessage |-> FALSE,
        attachments |-> <<>>],
       [id |-> "n_10", text |-> <<"מעבר לנציג">>, parent |-> "n_3", rI |-> "2",
        addChannelStateMessage |-> FALSE, attachments |-> <<>>],
       [id |-> "n_11", text |-> <<"Error">>, parent |-> "n_3", rI |-> "2",
        addChannelStateMessage |-> FALSE, error |-> TRUE],
       [id |-> "n_12", text |-> <<"לא ידוע">>, parent |-> "n_3", rI |-> "2",
        addChannelStateMessage |-> FALSE, unknown |-> "1"] >>

RECURSIVE Unwind(_, _)
\* The frames left once every frame whose children.forEach is over has
\* returned.
Unwind(stack, map) ==
    IF stack = <<>> THEN stack
    ELSE LET top == stack[Len(stack)]
         IN  IF top.i > Len(map[top.node].children)
             THEN Unwind(SubSeq(stack, 1, Len(stack) - 1), map)
             ELSE stack

\* processNode without the processedNodes guard (a mutant).
processNodeUnguarded(node, parentId, g, map) ==
    LET commboxNode == convertToCommboxNode(node, g.nodeIndex, parentId)
    IN  [scriptArray |-> Append(g.scriptArray, commboxNode),
         nodeIndex |-> g.nodeIndex + 1,
         processedNodes |-> g.processedNodes \cup {node.id},
         stack |-> Unwind(Append(g.stack, [node |-> node.id, recId |-> commboxNode.id, i |-> 1]), map)]

\* processNode handing its children the id after its own (a mutant).
processNodeIdAhead(node, parentId, g, map) ==
    IF node.id \in g.processedNodes
    THEN [g EXCEPT !.stack = Unwind(g.stack, map)]
    ELSE LET commboxNode == convertToCommboxNode(node, g.nodeIndex, parentId)
         IN  [scriptArray |-> Append(g.scriptArray, commboxNode),
              nodeIndex |-> g.nodeIndex + 1,
              processedNodes |-> g.processedNodes \cup {node.id},
              stack |-> Unwind(Append(g.stack, [node |-> node.id,
                                                recId |-> NodeId(g.nodeIndex + 1), i |-> 1]), map)]

\* processNode taking an id for a node the guard skips (a mutant).
processNodeSkipTakesId(node, parentId, g, map) ==
    IF node.id \in g.processedNodes
    THEN [g EXCEPT !.nodeIndex = g.nodeIndex + 1, !.stack = Unwind(g.stack, map)]
    ELSE LET commboxNode == convertToCommboxNode(node, g.nodeIndex, parentId)
         IN  [scriptArray |-> Append(g.scriptArray, commboxNode),
              nodeIndex |-> g.nodeIndex + 1,
              processedNodes |-> g.processedNodes \cup {node.id},
              stack |-> Unwind(Append(g.stack, [node |-> node.id,
                                                recId |-> commboxNode.id, i |-> 1]), map)]

\* One call of processNode(node, parentId), up to its first call of itself
\* or to its return: g is the state of generateCommboxXML when it is made.
processNode(node, parentId, g, map) ==
    IF node.id \in g.processedNodes
    THEN [g EXCEPT !.stack = Unwind(g.stack, map)]
    ELSE LET commboxNode == convertToCommboxNode(node, g.nodeIndex, parentId)
         IN  [scriptArray |-> Append(g.scriptArray, commboxNode),
              nodeIndex |-> g.nodeIndex + 1,
              processedNodes |-> g.processedNodes \cup {node.id},
              stack |-> Unwind(Append(g.stack, [node |-> node.id,
                                                recId |-> commboxNode.id, i |-> 1]), map)]

\* The history of emitted node ids after the same call.
EmittedAfter(node, g) ==
    IF node.id \in g.processedNodes THEN emitted ELSE Append(emitted, node.id)

\* ---------------------------------------------------------------- actions

TypeDefaults ==
    /\ cNode = NoNode
    /\ cType = ""
    /\ esc = NoEscape
    /\ wizard = NoWizard
    /\ reqs = NoRequests

Init ==
    /\ IsUpload(input)
    /\ pc = "idle"
    /\ thrown = NoError
    /\ decodedContent = [wellFormed |-> FALSE]
    /\ parsedData = NoData
    /\ nodeMap = <<>>
    /\ hierarchy = <<>>
    /\ gen = NoGen
    /\ rootIdx = 0
    /\ emitted = <<>>
    /\ calls = 0
    /\ response = NoResponse
    /\ clock = 1
    /\ run = 1
    /\ first = NoFirst
    /\ TypeDefaults

\* The route handler up to the first await of parseDrawioFile.
Receive ==
    /\ pc = "idle"
    /\ IF ~input.hasFile
       THEN /\ response' = [status |-> 400, success |-> FALSE, error |-> "לא הועלה קובץ"]
            /\ pc' = "done"
       ELSE /\ pc' = "awaitOuter"
            /\ UNCHANGED response
    /\ UNCHANGED << input, thrown, decodedContent, parsedData, nodeMap, hierarchy, gen,
                    rootIdx, emitted, calls, clock, run, first, cNode, cType, esc, wizard, reqs >>

\* parseDrawioFile from the outer parse to the parse of the decoded markup.
OuterParsed ==
    /\ pc = "awaitOuter"
    /\ LET error == OuterError(input)
       IN  IF error.raised
           THEN /\ thrown' = error
                /\ pc' = "rejected"
                /\ UNCHANGED decodedContent
           ELSE /\ decodedContent' = input.decoded
                /\ pc' = "awaitInner"
                /\ UNCHANGED thrown
    /\ UNCHANGED << input, parsedData, nodeMap, hierarchy, gen, rootIdx, emitted, calls,
                    response, clock, run, first, cNode, cType, esc, wizard, reqs >>

\* parseDrawioFile from the parse of the decoded markup to its return.
InnerParsed ==
    /\ pc = "awaitInner"
    /\ IF ~decodedContent.wellFormed
       THEN /\ thrown' = Error(input.parserMessage)
            /\ pc' = "rejected"
            /\ UNCHANGED parsedData
       ELSE /\ LET graphModel == ParseGraphModel(decodedContent)
               IN  parsedData' = [nodes |-> extractNodes(graphModel),
                                  connections |-> extractConnections(graphModel),
                                  mxGraphModelXml |-> decodedContent]
            /\ pc' = "parsed"
            /\ UNCHANGED thrown
    /\ UNCHANGED << input, decodedContent, nodeMap, hierarchy, gen, rootIdx, emitted, calls,
                    response, clock, run, first, cNode, cType, esc, wizard, reqs >>

\* The catch block of the route handler.
HandlerCatch ==
    /\ pc = "rejected"
    /\ response' = ErrorResponse(thrown)
    /\ pc' = "done"
    /\ UNCHANGED << input, thrown, decodedContent, parsedData, nodeMap, hierarchy, gen,
                    rootIdx, emitted, calls, clock, run, first, cNode, cType, esc, wizard, reqs >>

\* generateCommboxXML up to hierarchy.forEach.
GenerateBegin ==
    /\ pc = "parsed"
    /\ LET built == buildHierarchy(parsedData.nodes, parsedData.connections)
       IN  /\ nodeMap' = built.nodeMap
           /\ hierarchy' = built.hierarchy
    /\ gen' = [scriptArray |-> <<ConfigRecord, RootRecord>>,
               nodeIndex |-> FirstNodeIndex(gen.nodeIndex),
               processedNodes |-> {},
               stack |-> <<>>]
    /\ rootIdx' = 1
    /\ emitted' = <<>>
    /\ calls' = 0
    /\ pc' = "generate"
    /\ UNCHANGED << input, thrown, decodedContent, parsedData, response, clock, run, first,
                    cNode, cType, esc, wizard, reqs >>

\* hierarchy.forEach: processNode(rootNode).
ProcessRoot ==
    /\ pc = "generate"
    /\ gen.stack = <<>>
    /\ rootIdx <= Len(hierarchy)
    /\ gen' = processNode(hierarchy[rootIdx], "node_0", gen, nodeMap)
    /\ emitted' = EmittedAfter(hierarchy[rootIdx], gen)
    /\ rootIdx' = rootIdx + 1
    /\ calls' = calls + 1
    /\ UNCHANGED << input, pc, thrown, decodedContent, parsedData, nodeMap, hierarchy,
                    response, clock, run, first, cNode, cType, esc, wizard, reqs >>

\* node.children.forEach of the running processNode: its next child.
ProcessChild ==
    /\ pc = "generate"
    /\ gen.stack # <<>>
    /\ LET depth == Len(gen.stack)
           top == gen.stack[depth]
           childId == nodeMap[top.node].children[top.i]
           advanced == [gen EXCEPT !.stack[depth].i = top.i + 1]
       IN  IF childId \in DOMAIN nodeMap
           THEN /\ gen' = processNode(nodeMap[childId], top.recId, advanced, nodeMap)
                /\ emitted' = EmittedAfter(nodeMap[childId], gen)
           ELSE /\ gen' = [advanced EXCEPT !.stack = Unwind(advanced.stack, nodeMap)]
                /\ UNCHANGED emitted
    /\ calls' = calls + 1
    /\ UNCHANGED << input, pc, thrown, decodedContent, parsedData, nodeMap, hierarchy,
                    rootIdx, response, clock, run, first, cNode, cType, esc, wizard, reqs >>

\* The rest of generateCommboxXML and the answer of the route.
GenerateEnd ==
    /\ pc = "generate"
    /\ gen.stack = <<>>
    /\ rootIdx > Len(hierarchy)
    /\ LET scriptArray == gen.scriptArray \o FixedProcessNodes
           xml == [Value |-> scriptArray,
                   EncryptedStreamId |-> "generated_" \o ToString(clock),
                   Name |-> "Bot Generated " \o ToString(clock),
                   Brand |-> "802"]
       IN  /\ gen' = [gen EXCEPT !.scriptArray = scriptArray]
           /\ response' = [status |-> 200, success |-> TRUE, xml |-> xml,
                           mxGraphModelXml |-> parsedData.mxGraphModelXml,
                           filename |-> "commbox_bot_" \o ToString(clock) \o ".xml",
                           mxGraphModelFilename |-> "mxGraphModel_" \o ToString(clock) \o ".xml",
                           stats |-> [nodesCount |-> Len(parsedData.nodes),
                                      connectionsCount |-> Len(parsedData.connections)]]
    /\ clock' = clock + 1
    /\ pc' = "done"
    /\ UNCHANGED << input, thrown, decodedContent, parsedData, nodeMap, hierarchy, rootIdx,
                    emitted, calls, run, first, cNode, cType, esc, wizard, reqs >>

Next ==
    \/ Receive
    \/ OuterParsed
    \/ InnerParsed
    \/ HandlerCatch
    \/ GenerateBegin
    \/ ProcessRoot
    \/ ProcessChild
    \/ GenerateEnd

Spec == Init /\ [][Next]_vars

\* ----------------------------------------------------------------- claims

\* The conversion has answered with the generated script.
Succeeded == pc = "done" /\ response.status = 200

\* The record list built so far.
Records == gen.scriptArray

\* The connections both of whose ends are extracted nodes.
ResolvedConnections ==
    SelectSeq(parsedData.connections,
              LAMBDA conn : /\ \E i \in 1..Len(parsedData.nodes) : parsedData.nodes[i].id = conn.source
                            /\ \E i \in 1..Len(parsedData.nodes) : parsedData.nodes[i].id = conn.target)

\* The place of node id n among the emitted diagram nodes (0: not emitted).
EmitPos(n) ==
    IF \E i \in 1..Len(emitted) : emitted[i] = n
    THEN CHOOSE i \in 1..Len(emitted) : emitted[i] = n
    ELSE 0

\* The record of the k-th emitted diagram node: it follows the
\* configuration record and the root record.
NodeRecord(k) == Records[k + 2]

\* C1: every record other than the configuration record has as parent the
\* root sentinel '#' or the id of a record written earlier in the list.
C1_ParentPrecedes ==
    \A i \in 1..Len(Records) :
        "parent" \in DOMAIN Records[i] =>
            \/ Records[i].parent = "#"
            \/ \E j \in 1..(i - 1) : "id" \in DOMAIN Records[j] /\ Records[j].id = Records[i].parent

\* C1 witness: a finished script in which a diagram node is the child of
\* another diagram node.
C1_Witness ==
    /\ Succeeded
    /\ Len(emitted) >= 2
    /\ \E k \in 2..Len(emitted) : NodeRecord(k).parent = NodeRecord(1).id

\* C2 (as claimed): the finished script holds exactly one record per
\* extracted diagram node.
C2_OneRecordPerNode ==
    Succeeded =>
        /\ Len(emitted) = Len(parsedData.nodes)
        /\ \A i \in 1..Len(parsedData.nodes) : EmitPos(parsedData.nodes[i].id) # 0

\* The number of processNode calls the traversal can make: one per root and
\* one per entry of a children list.
CallBudget == Len(hierarchy) + Len(ResolvedConnections)

\* C3: the traversal emits each diagram node id at most once and terminates:
\* every step of it is one processNode call, the calls never exceed the call
\* budget, and the innermost running processNode always has a next child to
\* go to (so that one of ProcessRoot, ProcessChild and GenerateEnd can be
\* taken).
C3_CycleSafe ==
    /\ \A i, j \in 1..Len(emitted) : emitted[i] = emitted[j] => i = j
    /\ pc = "generate" =>
          /\ Len(Records) = Len(emitted) + 2
          /\ calls <= CallBudget
          /\ gen.stack # <<>> =>
                gen.stack[Len(gen.stack)].i
                    \in 1..Len(nodeMap[gen.stack[Len(gen.stack)].node].children)

\* C3 witness: a finished script of a diagram with the cycle a -> b, b -> a,
\* both nodes emitted, the guard of processNode having skipped a call.
C3_Witness ==
    /\ Succeeded
    /\ \E i, j \in 1..Len(parsedData.connections) :
          /\ parsedData.connections[i].source = "a" /\ parsedData.connections[i].target = "b"
          /\ parsedData.connections[j].source = "b" /\ parsedData.connections[j].target = "a"
    /\ EmitPos("a") # 0 /\ EmitPos("b") # 0
    /\ calls > Len(emitted)

\* The sources of the resolved connections into node id n.
InboundSources(n) ==
    LET rc == ResolvedConnections
    IN  [k \in 1..Len(SelectSeq(rc, LAMBDA conn : conn.target = n)) |->
            SelectSeq(rc, LAMBDA conn : conn.target = n)[k].source]

RECURSIVE HasAncestor(_, _, _)
\* Node id r is n itself or is reached from n by going up at most k
\* connections (every node having at most one inbound connection).
HasAncestor(n, r, k) ==
    \/ n = r
    \/ /\ k > 0
       /\ InboundSources(n) # <<>>
       /\ HasAncestor(InboundSources(n)[1], r, k - 1)

\* The extracted diagram is a forest: every node is the target of at most
\* one connection, and no node is reached from itself.
IsForest ==
    /\ \A i \in 1..Len(parsedData.nodes) : Len(InboundSources(parsedData.nodes[i].id)) <= 1
    /\ \A i \in 1..Len(parsedData.nodes) :
          LET n == parsedData.nodes[i].id
          IN  InboundSources(n) # <<>> =>
                 ~HasAncestor(InboundSources(n)[1], n, Len(parsedData.nodes))

\* C4 (as claimed): in the script of a forest, the source and the target of
\* every connection have records, the target's record has the source's
\* emitted id as parent, the children of one source come in edge order, and
\* every record of the subtree of a root comes before the record of any root
\* that follows it in node enumeration order.
C4_PreOrder ==
    (Succeeded /\ IsForest) =>
        LET rc == ResolvedConnections
            roots == SelectSeq(hierarchy, LAMBDA r : InboundSources(r.id) = <<>>)
        IN  /\ \A k \in 1..Len(rc) :
                  /\ EmitPos(rc[k].source) # 0
                  /\ EmitPos(rc[k].target) # 0
                  /\ NodeRecord(EmitPos(rc[k].target)).parent
                        = NodeRecord(EmitPos(rc[k].source)).id
            /\ \A k, l \in 1..Len(rc) :
                  (k < l /\ rc[k].source = rc[l].source) =>
                      EmitPos(rc[k].target) < EmitPos(rc[l].target)
            /\ \A p, q \in 1..Len(roots) :
                  p < q =>
                      \A i \in 1..Len(parsedData.nodes) :
                          LET n == parsedData.nodes[i].id
                          IN  HasAncestor(n, roots[p].id, Len(parsedData.nodes)) =>
                                 /\ EmitPos(n) # 0
                                 /\ EmitPos(n) < EmitPos(roots[q].id)

\* C5 (as claimed): once the hierarchy is built, every node that is the
\* target of no connection is one of the returned roots, whatever its
\* containment parent attribute.
C5_NoInboundIsRoot ==
    (pc = "generate" \/ Succeeded) =>
        \A i \in 1..Len(parsedData.nodes) :
            (\A k \in 1..Len(parsedData.connections) :
                 parsedData.connections[k].target # parsedData.nodes[i].id)
            => \E r \in 1..Len(hierarchy) : hierarchy[r].id = parsedData.nodes[i].id

\* The number of records that satisfy P.
CountRecords(P(_)) == Cardinality({ i \in 1..Len(Records) : P(Records[i]) })

\* C6: the finished script holds exactly one configuration record, one
\* synthetic root, one grouping record and the three standing-process
\* records once each, the three having the grouping record's id as parent;
\* all other records are those of the emitted diagram nodes.
C6_FixedBoilerplate ==
    Succeeded =>
        LET grouping == { i \in 1..Len(Records) : "buttonDisplayMode" \in DOMAIN Records[i] }
            standing(text, flag) ==
                { i \in 1..Len(Records) :
                      /\ "id" \in DOMAIN Records[i]
                      /\ Records[i].text = <<text>>
                      /\ "attachments" \in DOMAIN Records[i] <=> flag = "attachments"
                      /\ flag \in DOMAIN Records[i]
                      /\ DOMAIN Records[i] \subseteq
                            {"id", "text", "parent", "rI", "addChannelStateMessage", flag} }
            transfer == standing("מעבר לנציג", "attachments")
            error == standing("Error", "error")
            unknown == standing("לא ידוע", "unknown")
        IN  /\ CountRecords(LAMBDA r : "seedId" \in DOMAIN r) = 1
            /\ CountRecords(LAMBDA r : "id" \in DOMAIN r /\ r.id = "node_0") = 1
            /\ Cardinality(grouping) = 1
            /\ Cardinality(transfer) = 1 /\ Cardinality(error) = 1 /\ Cardinality(unknown) = 1
            /\ \A g \in grouping : \A i \in transfer \cup error \cup unknown :
                  Records[i].parent = Records[g].id
            /\ Len(Records) = Len(emitted) + 6

\* C6 witness: a finished script with the records of three diagram nodes,
\* one of them an error node.
C6_Witness ==
    /\ Succeeded
    /\ Len(emitted) = 3
    /\ \E k \in 1..3 : "error" \in DOMAIN NodeRecord(k)

\* C8: when a decode or parse step fails, generateCommboxXML is never run
\* and the answer is a failure and nothing else: success false, a non-empty
\* error message, no xml, no intermediate markup and no stats.
C8_AllOrNothing ==
    (/\ input.hasFile
     /\ \/ input.outer # "parsed"
        \/ ~input.payloadOk
        \/ ~input.decoded.wellFormed)
    => /\ pc \notin {"parsed", "generate"}
       /\ gen = NoGen /\ nodeMap = <<>> /\ parsedData = NoData
       /\ pc = "done" =>
             /\ DOMAIN response = {"status", "success", "error"}
             /\ response.success = FALSE
             /\ response.error # ""

\* C8 witness: the answer to a file whose payload does not inflate.
C8_Witness ==
    /\ pc = "done"
    /\ input.hasFile /\ input.outer = "parsed" /\ ~input.payloadOk
    /\ response.error = "Failed to decompress Draw.io file"

\* C9 (as claimed): a file with no diagram element, or whose recovered
\* markup has no graph-model root, is never answered with success.
C9_MissingStructureFatal ==
    (/\ pc = "done"
     /\ input.hasFile
     /\ \/ input.where = "none"
        \/ ~input.decoded.hasRoot)
    => response.success = FALSE

\* ------------------------------------------------- the same file twice

\* The same file is uploaded again once the first conversion has answered.
\* Nothing outlives a call of the route handler but what the module itself
\* holds; every local is assigned again by the code that declares it.
Rerun ==
    /\ pc = "done"
    /\ run = 1
    /\ first' = [response |-> response, scriptArray |-> gen.scriptArray]
    /\ run' = 2
    /\ response' = NoResponse
    /\ pc' = "idle"
    /\ UNCHANGED << input, thrown, decodedContent, parsedData, nodeMap, hierarchy, gen,
                    rootIdx, emitted, calls, clock, cNode, cType, esc, wizard, reqs >>

NextTwice == Next \/ Rerun

SpecTwice == Init /\ [][NextTwice]_vars

\* C10: the second conversion of a file answers as the first did: the same
\* status, the same stats, the same records in the same order and the same
\* intermediate markup (or the same error); only the timestamp and the
\* generated ids of the envelope may differ.
C10_Idempotent ==
    (run = 2 /\ pc = "done") =>
        /\ response.status = first.response.status
        /\ response.success = first.response.success
        /\ response.success =>
              /\ response.stats = first.response.stats
              /\ gen.scriptArray = first.scriptArray
              /\ response.xml.Value = first.response.xml.Value
              /\ response.xml.Brand = first.response.xml.Brand
              /\ response.mxGraphModelXml = first.response.mxGraphModelXml
        /\ ~response.success => response.error = first.response.error

\* C10 witness: the second conversion of a diagram with a parent and a child
\* has answered, at another time than the first.
C10_Witness ==
    /\ run = 2 /\ Succeeded
    /\ Len(emitted) >= 2
    /\ NodeRecord(2).parent = "n_2"
    /\ response.xml.EncryptedStreamId # first.response.xml.EncryptedStreamId

\* ------------------------------------------------- detectNodeType alone

\* Any label and any style within the bounds, no file being converted.
InitClassify ==
    /\ \E k \in 0..MaxSegments, l \in 0..MaxStyleSegments :
          \E value \in [1..k -> LabelSegments], style \in [1..l -> StyleSegments] :
             cNode = [value |-> value, style |-> style]
    /\ cType = ""
    /\ pc = "classify"
    /\ input = Upload(RootCells(FALSE))
    /\ thrown = NoError
    /\ decodedContent = [wellFormed |-> FALSE]
    /\ parsedData = NoData
    /\ nodeMap = <<>>
    /\ hierarchy = <<>>
    /\ gen = NoGen
    /\ rootIdx = 0
    /\ emitted = <<>>
    /\ calls = 0
    /\ response = NoResponse
    /\ clock = 1
    /\ run = 1
    /\ first = NoFirst
    /\ esc = NoEscape
    /\ wizard = NoWizard
    /\ reqs = NoRequests

Classify ==
    /\ pc = "classify"
    /\ cType' = detectNodeType(cNode)
    /\ pc' = "classified"
    /\ UNCHANGED << input, thrown, decodedContent, parsedData, nodeMap, hierarchy, gen,
                    rootIdx, emitted, calls, response, clock, run, first, cNode,
                    esc, wizard, reqs >>

SpecClassify == InitClassify /\ [][Classify]_vars

\* The rules of the classification in their order: what is searched (the
\* label or the style), the keywords, and the role a match gives.
ClassificationRules ==
    << [on |-> "value", keywords |-> {"מעבר לנציג", "transfer", "agent"}, role |-> "transfer"],
       [on |-> "value", keywords |-> {"לא ידוע", "unknown"}, role |-> "unknown"],
       [on |-> "value", keywords |-> {"שגיאה", "error"}, role |-> "error"],
       [on |-> "value", keywords |-> {"סיום", "סגירה", "end", "close"}, role |-> "end"],
       [on |-> "value", keywords |-> {"התחלה", "start"}, role |-> "start"],
       [on |-> "value", keywords |-> {"קלט", "input"}, role |-> "input"],
       [on |-> "style", keywords |-> {"ellipse", "circle"}, role |-> "start"],
       [on |-> "style", keywords |-> {"rhombus", "diamond"}, role |-> "decision"] >>

\* Rule r matches the node, whatever the case of its text.
RuleMatches(r, node) ==
    \E kw \in ClassificationRules[r].keywords :
        includes(toLowerCase(IF ClassificationRules[r].on = "value" THEN node.value ELSE node.style),
                 kw)

\* C7: the role of a node is the role of the first rule that matches it, and
\* message when none does; so a label keyword always overrides the style.
C7_FirstMatchWins ==
    pc = "classified" =>
        LET matching == { r \in 1..Len(ClassificationRules) : RuleMatches(r, cNode) }
        IN  /\ matching = {} => cType = "message"
            /\ matching # {} =>
                  \E r \in matching :
                      /\ \A o \in matching : r <= o
                      /\ cType = ClassificationRules[r].role
            /\ (\E r \in matching : ClassificationRules[r].on = "value") =>
                  cType \in {"transfer", "unknown", "error", "end", "start", "input"}
                  /\ cType # "decision"

\* C7 witness: a node labelled with an error keyword and styled as a rhombus
\* has been classified as error.
C7_Witness ==
    /\ pc = "classified"
    /\ cNode.value = <<"ERROR">>
    /\ cNode.style = <<"Rhombus">>
    /\ cType = "error"

\* ------------------------------------------------- buildHierarchy's result

\* The node map has been built by buildHierarchy and is in use.
HierarchyBuilt == pc = "generate" \/ Succeeded

\* The ids of the extracted nodes.
ExtractedIds == { parsedData.nodes[i].id : i \in 1..Len(parsedData.nodes) }

\* The connections one of whose ends is no extracted node.
DanglingConnections ==
    SelectSeq(parsedData.connections,
              LAMBDA conn : conn.source \notin ExtractedIds \/ conn.target \notin ExtractedIds)

\* The targets of the resolved connections out of node id n, in edge order.
OutboundTargets(n) ==
    LET out == SelectSeq(ResolvedConnections, LAMBDA conn : conn.source = n)
    IN  [k \in 1..Len(out) |-> out[k].target]

\* C13: once the hierarchy is built, the children list of every node is the
\* list of the targets of the resolved connections that leave it, in edge
\* order, and the parent of a node with resolved inbound connections is the
\* source of the last of them.
C13_ChildrenInEdgeOrder ==
    HierarchyBuilt =>
        \A n \in ExtractedIds :
            /\ nodeMap[n].children = OutboundTargets(n)
            /\ InboundSources(n) # <<>> =>
                  nodeMap[n].parent = InboundSources(n)[Len(InboundSources(n))]

\* C13 witness: a built hierarchy in which one node has two different
\* children, listed in the order of their connections, and one node has
\* inbound connections from two different sources and the source of the
\* later one as parent.
C13_Witness ==
    /\ HierarchyBuilt
    /\ \E n \in ExtractedIds :
          /\ Len(nodeMap[n].children) = 2
          /\ nodeMap[n].children[1] # nodeMap[n].children[2]
          /\ nodeMap[n].children = OutboundTargets(n)
    /\ \E n \in ExtractedIds :
          /\ Len(InboundSources(n)) = 2
          /\ InboundSources(n)[1] # InboundSources(n)[2]
          /\ nodeMap[n].parent = InboundSources(n)[2]

\* C14: a connection one of whose ends is no extracted node changes nothing
\* and raises nothing: every children list holds extracted node ids only,
\* one per resolved connection out of the node, the parent of a node with no
\* resolved inbound connection is still its own parent attribute, and the
\* conversion goes on to answer with success.
C14_DanglingEdgeDropped ==
    /\ HierarchyBuilt =>
          \A i \in 1..Len(parsedData.nodes) :
              LET node == parsedData.nodes[i]
              IN  /\ Len(nodeMap[node.id].children) = Len(OutboundTargets(node.id))
                  /\ \A k \in 1..Len(nodeMap[node.id].children) :
                        nodeMap[node.id].children[k] \in ExtractedIds
                  /\ nodeMap[node.id].parent \in ExtractedIds \cup {node.parent}
                  /\ InboundSources(node.id) = <<>> => nodeMap[node.id].parent = node.parent
    /\ DanglingConnections # <<>> =>
          /\ thrown = NoError
          /\ pc \in {"parsed", "generate", "done"}
          /\ pc = "done" => response.success

\* C14 witness: a finished script of a diagram with a connection from node a
\* to the unnamed default layer and one from that layer to node b, both
\* dangling, and node a still without children.
C14_Witness ==
    /\ Succeeded
    /\ {"a", "b"} \subseteq ExtractedIds
    /\ "1" \notin ExtractedIds
    /\ \E k \in 1..Len(DanglingConnections) :
          DanglingConnections[k].source = "a" /\ DanglingConnections[k].target = "1"
    /\ \E k \in 1..Len(DanglingConnections) :
          DanglingConnections[k].source = "1" /\ DanglingConnections[k].target = "b"
    /\ nodeMap["a"].children = <<>>
    /\ nodeMap["b"].parent = "1"

\* ------------------------------------------------------------ the ids

\* C15: the record of the k-th emitted diagram node has the id n_(k+1), and
\* the counter is always two more than the number of emitted nodes: a call
\* the visited guard skips takes no id.
C15_SequentialIds ==
    HierarchyBuilt =>
        /\ \A k \in 1..Len(emitted) : NodeRecord(k).id = NodeId(k + 1)
        /\ gen.nodeIndex = Len(emitted) + 2

\* C15 witness: a finished script of three emitted diagram nodes, the third
\* with the id n_4, the guard having skipped a call before it was emitted.
C15_Witness ==
    /\ Succeeded
    /\ Len(emitted) = 3
    /\ calls > Len(emitted)
    /\ NodeRecord(1).id = "n_2" /\ NodeRecord(3).id = "n_4"
    /\ \E k \in 1..Len(ResolvedConnections) :
          /\ EmitPos(ResolvedConnections[k].target) # 0
          /\ EmitPos(ResolvedConnections[k].target) < 3
          /\ EmitPos(ResolvedConnections[k].source) # 0

\* C17 (as claimed): in the finished script no two records have the same id.
C17_DistinctIds ==
    Succeeded =>
        \A i, j \in 1..Len(Records) :
            ("id" \in DOMAIN Records[i] /\ "id" \in DOMAIN Records[j] /\ Records[i].id = Records[j].id)
                => i = j

\* The node id n is one of the roots buildHierarchy returned.
IsHierarchyRoot(n) == \E r \in 1..Len(hierarchy) : hierarchy[r].id = n

\* C18 (as claimed): in the finished script the record of every emitted
\* diagram node has node_0 as parent exactly when the node is one of the
\* roots of the hierarchy, and otherwise the id of the record of the parent
\* the node map stores for it.
C18_ParentAgreesWithHierarchy ==
    Succeeded =>
        \A k \in 1..Len(emitted) :
            LET n == emitted[k]
            IN  /\ NodeRecord(k).parent = "node_0" <=> IsHierarchyRoot(n)
                /\ ~IsHierarchyRoot(n) =>
                      /\ EmitPos(nodeMap[n].parent) # 0
                      /\ NodeRecord(k).parent = NodeRecord(EmitPos(nodeMap[n].parent)).id

\* ------------------------------------------------- the escaping alone

\* The characters a label is made of here: the five the escaping replaces,
\* the backslash JSON.stringify escapes, and letters and a semicolon, of
\* which entity names are made.
LabelChars == { "<", ">", "&", "\"", "'", "\\", ";", "l", "t" }

RECURSIVE ReplaceAll(_, _, _)
\* str.replace(/c/g, rep) for a single character c
ReplaceAll(str, c, rep) ==
    IF str = <<>> THEN <<>>
    ELSE (IF Head(str) = c THEN rep ELSE <<Head(str)>>) \o ReplaceAll(Tail(str), c, rep)

\* JSON.stringify of a string: the quotation mark and the backslash get a
\* backslash before them, and the whole is put between quotation marks.
StringifyString(str) ==
    <<"\"">> \o ReplaceAll(ReplaceAll(str, "\\", <<"\\", "\\">>), "\"", <<"\\", "\"">>) \o <<"\"">>

\* JSON.stringify(scriptArray) for a list of one record that has the label
\* as text: [{"text":"..."}]
Stringify(label) ==
    <<"[", "{", "\"", "t", "e", "x", "t", "\"", ":">> \o StringifyString(label) \o <<"}", "]">>

\* The five replacements with the ampersand replaced last (a mutant).
EscapeXmlAmpersandLast(scriptValue) ==
    LET lt == ReplaceAll(scriptValue, "<", <<"&", "l", "t", ";">>)
        gt == ReplaceAll(lt, ">", <<"&", "g", "t", ";">>)
        quot == ReplaceAll(gt, "\"", <<"&", "q", "u", "o", "t", ";">>)
        apos == ReplaceAll(quot, "'", <<"&", "a", "p", "o", "s", ";">>)
    IN  ReplaceAll(apos, "&", <<"&", "a", "m", "p", ";">>)

\* The chain of five replace calls that gives escapedValue.
EscapeXml(scriptValue) ==
    LET amp == ReplaceAll(scriptValue, "&", <<"&", "a", "m", "p", ";">>)
        lt == ReplaceAll(amp, "<", <<"&", "l", "t", ";">>)
        gt == ReplaceAll(lt, ">", <<"&", "g", "t", ";">>)
        quot == ReplaceAll(gt, "\"", <<"&", "q", "u", "o", "t", ";">>)
    IN  ReplaceAll(quot, "'", <<"&", "a", "p", "o", "s", ";">>)

\* Any label within the bounds, no file being converted.
InitEscape ==
    /\ \E k \in 0..MaxLabelChars : \E label \in [1..k -> LabelChars] :
          esc = [at |-> "stringify", label |-> label, scriptValue |-> <<>>, escapedValue |-> <<>>]
    /\ pc = "off"
    /\ input = Upload(RootCells(FALSE))
    /\ thrown = NoError
    /\ decodedContent = [wellFormed |-> FALSE]
    /\ parsedData = NoData
    /\ nodeMap = <<>>
    /\ hierarchy = <<>>
    /\ gen = NoGen
    /\ rootIdx = 0
    /\ emitted = <<>>
    /\ calls = 0
    /\ response = NoResponse
    /\ clock = 1
    /\ run = 1
    /\ first = NoFirst
    /\ cNode = NoNode
    /\ cType = ""
    /\ wizard = NoWizard
    /\ reqs = NoRequests

\* const scriptValue = JSON.stringify(scriptArray)
StringifyScript ==
    /\ esc.at = "stringify"
    /\ esc' = [esc EXCEPT !.at = "escape", !.scriptValue = Stringify(esc.label)]
    /\ UNCHANGED << input, pc, thrown, decodedContent, parsedData, nodeMap, hierarchy, gen,
                    rootIdx, emitted, calls, response, clock, run, first, cNode, cType,
                    wizard, reqs >>

\* const escapedValue = scriptValue.replace(...)
EscapeScript ==
    /\ esc.at = "escape"
    /\ esc' = [esc EXCEPT !.at = "escaped", !.escapedValue = EscapeXml(esc.scriptValue)]
    /\ UNCHANGED << input, pc, thrown, decodedContent, parsedData, nodeMap, hierarchy, gen,
                    rootIdx, emitted, calls, response, clock, run, first, cNode, cType,
                    wizard, reqs >>

NextEscape == StringifyScript \/ EscapeScript

SpecEscape == InitEscape /\ [][NextEscape]_vars

\* The entities of XML and the character each stands for.
Entities ==
    { [name |-> <<"&", "a", "m", "p", ";">>, char |-> "&"],
      [name |-> <<"&", "l", "t", ";">>, char |-> "<"],
      [name |-> <<"&", "g", "t", ";">>, char |-> ">"],
      [name |-> <<"&", "q", "u", "o", "t", ";">>, char |-> "\""],
      [name |-> <<"&", "a", "p", "o", "s", ";">>, char |-> "'"] }

\* The entity str starts with at position i, if any.
EntitiesAt(str, i) ==
    { e \in Entities : /\ i + Len(e.name) - 1 <= Len(str)
                       /\ SubSeq(str, i, i + Len(e.name) - 1) = e.name }

RECURSIVE AttributeValue(_, _)
\* What an XML parser reads from an attribute written as str, from position
\* i on: every entity gives its character, once.
AttributeValue(str, i) ==
    IF i > Len(str) THEN <<>>
    ELSE IF EntitiesAt(str, i) # {}
         THEN LET e == CHOOSE e \in EntitiesAt(str, i) : TRUE
              IN  <<e.char>> \o AttributeValue(str, i + Len(e.name))
         ELSE <<str[i]>> \o AttributeValue(str, i + 1)

\* C12: the escaped payload holds none of < > " ' as a character, every
\* ampersand in it starts one of the five entities, and reading it as an
\* attribute value gives the JSON text back (no entity is escaped twice).
C12_EscapedPayload ==
    esc.at = "escaped" =>
        /\ \A i \in 1..Len(esc.escapedValue) :
              /\ esc.escapedValue[i] \notin {"<", ">", "\"", "'"}
              /\ esc.escapedValue[i] = "&" => EntitiesAt(esc.escapedValue, i) # {}
        /\ AttributeValue(esc.escapedValue, 1) = esc.scriptValue

\* C12 witness: the label <&" has been escaped: its payload ends with
\* &lt;&amp;\&quot;&quot;}]
C12_Witness ==
    /\ esc.at = "escaped"
    /\ esc.label = <<"<", "&", "\"">>
    /\ SubSeq(esc.escapedValue, Len(esc.escapedValue) - 23, Len(esc.escapedValue))
          = <<"&", "l", "t", ";", "&", "a", "m", "p", ";", "\\", "&", "q", "u", "o", "t", ";",
              "&", "q", "u", "o", "t", ";", "}", "]">>

\* ------------------------------------------------------------ the wizard

\* The timeout of the conversion request, in milliseconds.
timeout == 30000

\* The files a user drops.
Files == { "flow.drawio", "bot.xml" }

\* response.data of an answer with a 2xx status: a success, or a failure
\* with or without an error text.
SuccessData ==
    { [success |-> TRUE, xml |-> "<Section Name=\"Scripts\">...</Section>", filename |-> f]
        : f \in { "commbox_bot_1.xml", "commbox_bot_2.xml" } }

FailureData ==
    { [success |-> FALSE, error |-> e] : e \in { "Failed to decompress Draw.io file", "" } }

\* What axios rejects with: an answer with another status (the answers of
\* the route's 400 and 500 branches, or one without an error text), no
\* answer at all, or the timeout.
HttpErrors ==
    { [response |-> << [data |-> [success |-> FALSE, error |-> e]] >>,
       message |-> "Request failed with status code " \o c]
        : e \in { "לא הועלה קובץ", "" }, c \in { "400", "500" } }

NetworkError == [response |-> <<>>, message |-> "Network Error"]

TimeoutError == [response |-> <<>>, message |-> "timeout of 30000ms exceeded"]

\* a || b for two strings
OrElse(a, b) == IF Truthy(a) THEN a ELSE b

\* The catch block without the finally block (a mutant).
CatchNoFinally(w, error) ==
    [w EXCEPT !.toast = OrElse(IF error.response # <<>> THEN error.response[1].data.error ELSE "",
                               OrElse(error.message, "שגיאה בעיבוד הקובץ")),
              !.request = "none",
              !.outcome = "failure"]

\* processFile from the catch block on: the toast of the error, and
\* setIsProcessing(false) of the finally block.
Catch(w, error) ==
    [w EXCEPT !.toast = OrElse(IF error.response # <<>> THEN error.response[1].data.error ELSE "",
                               OrElse(error.message, "שגיאה בעיבוד הקובץ")),
              !.isProcessing = FALSE,
              !.request = "none",
              !.outcome = "failure"]

\* processFile from the answer of axios.post on.
Resolved(w, data) ==
    IF data.success
    THEN [w EXCEPT !.result = <<data>>,
                   !.currentStep = 4,
                   !.toast = "הקובץ עובד בהצלחה!",
                   !.isProcessing = FALSE,
                   !.request = "none",
                   !.outcome = "success"]
    ELSE Catch(w, [response |-> <<>>, message |-> OrElse(data.error, "שגיאה בעיבוד הקובץ")])

\* The component as it is mounted; request, elapsed, outcome and attempts
\* are the request in flight, its age, how the last request ended and the
\* number of requests made.
InitWizard ==
    /\ wizard = [at |-> "on", currentStep |-> 1, selectedMethod |-> "null",
                 selectedFile |-> "null", isProcessing |-> FALSE, result |-> <<>>,
                 toast |-> "", request |-> "none", elapsed |-> 0, outcome |-> "none",
                 attempts |-> 0]
    /\ pc = "off"
    /\ input = Upload(RootCells(FALSE))
    /\ thrown = NoError
    /\ decodedContent = [wellFormed |-> FALSE]
    /\ parsedData = NoData
    /\ nodeMap = <<>>
    /\ hierarchy = <<>>
    /\ gen = NoGen
    /\ rootIdx = 0
    /\ emitted = <<>>
    /\ calls = 0
    /\ response = NoResponse
    /\ clock = 1
    /\ run = 1
    /\ first = NoFirst
    /\ cNode = NoNode
    /\ cType = ""
    /\ esc = NoEscape
    /\ reqs = NoRequests

\* What no action of the wizard changes.
ServerUnchanged ==
    UNCHANGED << input, pc, thrown, decodedContent, parsedData, nodeMap, hierarchy, gen,
                 rootIdx, emitted, calls, response, clock, run, first, cNode, cType,
                 esc, reqs >>

\* A click on a method button of step 1, or on the button of step 2 that
\* leads from the instructions to the upload.
handleMethodSelect ==
    /\ wizard.at = "on"
    /\ \E method \in { "upload", "create" } :
          /\ \/ wizard.currentStep = 1
             \/ wizard.currentStep = 2 /\ wizard.selectedMethod = "create" /\ method = "upload"
          /\ wizard' = [wizard EXCEPT !.selectedMethod = method, !.currentStep = 2]
    /\ ServerUnchanged

\* A file dropped on the drop zone of step 2.
onDrop ==
    /\ wizard.at = "on"
    /\ wizard.currentStep = 2 /\ wizard.selectedMethod = "upload"
    /\ \E file \in Files :
          wizard' = [wizard EXCEPT !.selectedFile = file, !.currentStep = 3,
                                   !.toast = "קובץ " \o file \o " נבחר בהצלחה"]
    /\ ServerUnchanged

\* A click on the process button of step 3 (disabled while isProcessing):
\* processFile up to its await.
processFile ==
    /\ wizard.at = "on"
    /\ wizard.currentStep = 3 /\ ~wizard.isProcessing
    /\ wizard.attempts < MaxAttempts
    /\ IF wizard.selectedFile = "null"
       THEN wizard' = [wizard EXCEPT !.toast = "אנא בחר קובץ תחילה"]
       ELSE wizard' = [wizard EXCEPT !.isProcessing = TRUE, !.request = "pending",
                                     !.elapsed = 0, !.attempts = @ + 1]
    /\ ServerUnchanged

\* Time passes while the request is in flight.
Tick ==
    /\ wizard.at = "on"
    /\ wizard.request = "pending"
    /\ wizard.elapsed < timeout
    /\ wizard' = [wizard EXCEPT !.elapsed = @ + TickMs]
    /\ ServerUnchanged

\* The request is answered with a 2xx status in time.
Answered ==
    /\ wizard.at = "on"
    /\ wizard.request = "pending"
    /\ wizard.elapsed < timeout
    /\ \E data \in SuccessData \cup FailureData : wizard' = Resolved(wizard, data)
    /\ ServerUnchanged

\* The request fails in time: another status, or no answer.
Rejected ==
    /\ wizard.at = "on"
    /\ wizard.request = "pending"
    /\ wizard.elapsed < timeout
    /\ \E error \in HttpErrors \cup { NetworkError } : wizard' = Catch(wizard, error)
    /\ ServerUnchanged

\* The timeout expires: axios aborts the request and rejects.
TimedOut ==
    /\ wizard.at = "on"
    /\ wizard.request = "pending"
    /\ wizard.elapsed >= timeout
    /\ wizard' = Catch(wizard, TimeoutError)
    /\ ServerUnchanged

\* A click on the restart button of step 4.
resetProcess ==
    /\ wizard.at = "on"
    /\ wizard.currentStep = 4 /\ wizard.result # <<>>
    /\ wizard' = [wizard EXCEPT !.currentStep = 1, !.selectedMethod = "null",
                                !.selectedFile = "null", !.result = <<>>]
    /\ ServerUnchanged

\* The request settles or grows older.
RequestStep == Tick \/ Answered \/ Rejected \/ TimedOut

NextWizard ==
    \/ handleMethodSelect
    \/ onDrop
    \/ processFile
    \/ Tick
    \/ Answered
    \/ Rejected
    \/ TimedOut
    \/ resetProcess

\* Time does not stop and axios settles every request, at the latest when
\* its timeout expires.
SpecWizard == InitWizard /\ [][NextWizard]_vars /\ WF_vars(RequestStep)

\* The request in flight settles in this step otherwise than by an answer
\* with success true.
SettlesAsFailure ==
    /\ wizard.request = "pending"
    /\ wizard'.request = "none"
    /\ \/ wizard.elapsed >= timeout
       \/ wizard'.outcome = "failure"

\* C16: a request that is answered with success false, fails or times out
\* leaves result as it is and currentStep at 3 and sets isProcessing back to
\* false; a request whose timeout has expired settles in no other way;
\* currentStep becomes 4 and result is set only by an answer with success
\* true; and isProcessing, once true, is false again later.
C16_FailureDiscarded ==
    /\ [][SettlesAsFailure =>
            /\ wizard'.result = wizard.result
            /\ wizard.currentStep = 3 /\ wizard'.currentStep = 3
            /\ wizard.isProcessing /\ ~wizard'.isProcessing]_vars
    /\ [][(\/ wizard'.currentStep = 4 /\ wizard.currentStep # 4
           \/ wizard'.result # wizard.result /\ wizard'.result # <<>>) =>
            /\ wizard.request = "pending" /\ wizard.elapsed < timeout
            /\ wizard'.outcome = "success"
            /\ wizard'.currentStep = 4
            /\ wizard'.result # <<>> /\ wizard'.result[1].success]_vars
    /\ (wizard.isProcessing ~> ~wizard.isProcessing)

\* C16 witness: a request has timed out: the wizard is at step 3 with no
\* result, not processing, and shows the timeout message.
C16_Witness ==
    /\ wizard.at = "on"
    /\ wizard.outcome = "failure"
    /\ wizard.elapsed >= timeout
    /\ wizard.toast = "timeout of 30000ms exceeded"
    /\ wizard.currentStep = 3 /\ wizard.result = <<>> /\ ~wizard.isProcessing
    /\ wizard.attempts >= 1

\* ------------------------------------------------ two requests in flight

RECURSIVE Traverse(_, _, _, _)
\* hierarchy.forEach(rootNode => processNode(rootNode)) from the state g on:
\* the running processNode goes to its next child, or the next root is
\* taken, until no root is left.
Traverse(g, idx, hier, map) ==
    IF g.stack # <<>>
    THEN LET depth == Len(g.stack)
             top == g.stack[depth]
             childId == map[top.node].children[top.i]
             advanced == [g EXCEPT !.stack[depth].i = top.i + 1]
         IN  IF childId \in DOMAIN map
             THEN Traverse(processNode(map[childId], top.recId, advanced, map), idx, hier, map)
             ELSE Traverse([advanced EXCEPT !.stack = Unwind(advanced.stack, map)], idx, hier, map)
    ELSE IF idx <= Len(hier)
         THEN Traverse(processNode(hier[idx], "node_0", g, map), idx + 1, hier, map)
         ELSE g

\* scriptArray at the end of generateCommboxXML(data)
generateCommboxXML(data) ==
    LET built == buildHierarchy(data.nodes, data.connections)
        started == [scriptArray |-> <<ConfigRecord, RootRecord>>,
                    nodeIndex |-> FirstNodeIndex(0),
                    processedNodes |-> {},
                    stack |-> <<>>]
    IN  Traverse(started, 1, built.hierarchy, built.nodeMap).scriptArray \o FixedProcessNodes

\* The answer of the route to a conversion that succeeded at time now.
SuccessResponse(data, now) ==
    [status |-> 200, success |-> TRUE,
     xml |-> [Value |-> generateCommboxXML(data),
              EncryptedStreamId |-> "generated_" \o ToString(now),
              Name |-> "Bot Generated " \o ToString(now),
              Brand |-> "802"],
     mxGraphModelXml |-> data.mxGraphModelXml,
     filename |-> "commbox_bot_" \o ToString(now) \o ".xml",
     mxGraphModelFilename |-> "mxGraphModel_" \o ToString(now) \o ".xml",
     stats |-> [nodesCount |-> Len(data.nodes), connectionsCount |-> Len(data.connections)]]

\* The uploads of two users at once: a well-formed file with a small
\* diagram in the default layer, or a variant file.
ConcurrentUploads ==
    UNION { UNION { { Upload(Cells(FALSE, n, [i \in 1..n |-> "1"], es))
                        : es \in [1..m -> EndPoints(n) \X EndPoints(n)] }
                    : m \in 0..(MaxConcurrentCells - n) }
            : n \in 0..MaxConcurrentCells }
      \cup VariantUploads

\* The locals of every invocation kept in one place, that of the module (a
\* mutant).
ScopeOfModule(r) == 1

\* Where the locals of invocation r of the route handler and of
\* parseDrawioFile live: they are declared with const and let inside the
\* functions, so every invocation has its own.
Scope(r) == r

\* The locals of one invocation before they are assigned.
NoLocals == [decodedContent |-> [wellFormed |-> FALSE], nodes |-> <<>>, connections |-> <<>>]

\* The requests in flight.
Requests == 1..2

\* Two requests have arrived, no handler has run yet.
InitConcurrent ==
    /\ \E f1, f2 \in ConcurrentUploads :
          reqs = [inv |-> << [file |-> f1, pc |-> "idle", thrown |-> NoError,
                              response |-> NoResponse],
                             [file |-> f2, pc |-> "idle", thrown |-> NoError,
                              response |-> NoResponse] >>,
                  locals |-> << NoLocals, NoLocals >>]
    /\ pc = "off"
    /\ input = Upload(RootCells(FALSE))
    /\ thrown = NoError
    /\ decodedContent = [wellFormed |-> FALSE]
    /\ parsedData = NoData
    /\ nodeMap = <<>>
    /\ hierarchy = <<>>
    /\ gen = NoGen
    /\ rootIdx = 0
    /\ emitted = <<>>
    /\ calls = 0
    /\ response = NoResponse
    /\ clock = 1
    /\ run = 1
    /\ first = NoFirst
    /\ cNode = NoNode
    /\ cType = ""
    /\ esc = NoEscape
    /\ wizard = NoWizard

\* What the handlers of two requests in flight leave alone.
SingleUnchanged ==
    UNCHANGED << input, pc, thrown, decodedContent, parsedData, nodeMap, hierarchy, gen,
                 rootIdx, emitted, calls, response, run, first, cNode, cType, esc, wizard >>

\* The route handler of request r up to the first await of parseDrawioFile.
RouteBegin(r) ==
    /\ reqs.inv[r].pc = "idle"
    /\ IF ~reqs.inv[r].file.hasFile
       THEN reqs' = [reqs EXCEPT !.inv[r].pc = "done",
                                 !.inv[r].response =
                                     [status |-> 400, success |-> FALSE, error |-> "לא הועלה קובץ"]]
       ELSE reqs' = [reqs EXCEPT !.inv[r].pc = "awaitOuter"]
    /\ UNCHANGED clock
    /\ SingleUnchanged

\* parseDrawioFile of request r from the outer parse to the parse of the
\* decoded markup.
ParseOuterDone(r) ==
    /\ reqs.inv[r].pc = "awaitOuter"
    /\ LET error == OuterError(reqs.inv[r].file)
       IN  IF error.raised
           THEN reqs' = [reqs EXCEPT !.inv[r].pc = "rejected", !.inv[r].thrown = error]
           ELSE reqs' = [reqs EXCEPT !.inv[r].pc = "awaitInner",
                                     !.locals[Scope(r)].decodedContent = reqs.inv[r].file.decoded]
    /\ UNCHANGED clock
    /\ SingleUnchanged

\* parseDrawioFile of request r from the parse of the decoded markup (the
\* parser was given the markup when the parse began) to its return.
ParseInnerDone(r) ==
    /\ reqs.inv[r].pc = "awaitInner"
    /\ IF ~reqs.inv[r].file.decoded.wellFormed
       THEN reqs' = [reqs EXCEPT !.inv[r].pc = "rejected",
                                 !.inv[r].thrown = Error(reqs.inv[r].file.parserMessage)]
       ELSE LET graphModel == ParseGraphModel(reqs.inv[r].file.decoded)
            IN  reqs' = [reqs EXCEPT !.inv[r].pc = "parsed",
                                     !.locals[Scope(r)].nodes = extractNodes(graphModel),
                                     !.locals[Scope(r)].connections = extractConnections(graphModel)]
    /\ UNCHANGED clock
    /\ SingleUnchanged

\* The catch block of the route handler of request r.
RouteCatch(r) ==
    /\ reqs.inv[r].pc = "rejected"
    /\ reqs' = [reqs EXCEPT !.inv[r].pc = "done",
                            !.inv[r].response = ErrorResponse(reqs.inv[r].thrown)]
    /\ UNCHANGED clock
    /\ SingleUnchanged

\* The route handler of request r from the return of parseDrawioFile on:
\* generateCommboxXML, which awaits nothing, and the answer.
RouteGenerate(r) ==
    /\ reqs.inv[r].pc = "parsed"
    /\ LET mine == reqs.locals[Scope(r)]
           data == [nodes |-> mine.nodes, connections |-> mine.connections,
                    mxGraphModelXml |-> mine.decodedContent]
       IN  reqs' = [reqs EXCEPT !.inv[r].pc = "done",
                                !.inv[r].response = SuccessResponse(data, clock)]
    /\ clock' = clock + 1
    /\ SingleUnchanged

NextConcurrent ==
    \E r \in Requests :
        \/ RouteBegin(r)
        \/ ParseOuterDone(r)
        \/ ParseInnerDone(r)
        \/ RouteCatch(r)
        \/ RouteGenerate(r)

SpecConcurrent == InitConcurrent /\ [][NextConcurrent]_vars

\* What the route answers to a file converted with no other request in
\* flight: status, success, then the records, the stats and the
\* intermediate markup, or the error.
AnswerAlone(file) ==
    IF ~file.hasFile
    THEN [status |-> 400, success |-> FALSE, error |-> "לא הועלה קובץ"]
    ELSE IF OuterError(file).raised
    THEN ErrorResponse(OuterError(file))
    ELSE IF ~file.decoded.wellFormed
    THEN ErrorResponse(Error(file.parserMessage))
    ELSE LET graphModel == ParseGraphModel(file.decoded)
             data == [nodes |-> extractNodes(graphModel),
                      connections |-> extractConnections(graphModel),
                      mxGraphModelXml |-> file.decoded]
         IN  [status |-> 200, success |-> TRUE, records |-> generateCommboxXML(data),
              stats |-> [nodesCount |-> Len(data.nodes),
                         connectionsCount |-> Len(data.connections)],
              mxGraphModelXml |-> data.mxGraphModelXml]

\* C11: whatever the interleaving of two requests at their awaits, the
\* answer to each has the status, the records, the stats and the
\* intermediate markup (or the error) of the same file converted alone, and
\* no step of one request changes the locals of the other.
C11_RequestsIsolated ==
    /\ \A r \in Requests :
          reqs.inv[r].pc = "done" =>
              LET got == reqs.inv[r].response
                  alone == AnswerAlone(reqs.inv[r].file)
              IN  /\ got.status = alone.status
                  /\ got.success = alone.success
                  /\ got.success =>
                        /\ got.xml.Value = alone.records
                        /\ got.stats = alone.stats
                        /\ got.mxGraphModelXml = alone.mxGraphModelXml
                  /\ ~got.success => got.error = alone.error
    /\ \A r \in Requests :
          reqs.inv[r].pc \in {"idle", "awaitOuter"} => reqs.locals[r] = NoLocals

\* C11 witness: both requests have answered with success, the first, whose
\* diagram has two nodes and an edge, after the second, whose diagram has
\* one node.
C11_Witness ==
    /\ \A r \in Requests : reqs.inv[r].pc = "done" /\ reqs.inv[r].response.success
    /\ reqs.inv[1].response.stats = [nodesCount |-> 2, connectionsCount |-> 1]
    /\ reqs.inv[2].response.stats = [nodesCount |-> 1, connectionsCount |-> 0]
    /\ Len(reqs.inv[1].response.xml.Value) = 8
    /\ Len(reqs.inv[2].response.xml.Value) = 7
    /\ reqs.inv[1].response.xml.EncryptedStreamId = "generated_2"

====
